---- MODULE Spec2Model ----
(***************************************************************************)
(* State-transition model of the marketplace API (server/routes.ts) over   *)
(* the persisted tables (shared schema, server/storage.ts).                *)
(*                                                                         *)
(* Every handler is an async function: each `await storage.x(...)` is one  *)
(* atomic step against the database, and other requests may run between    *)
(* two steps of the same handler.  `reqs` is the bag of requests being     *)
(* handled; a request's `pc` names the storage call it performs next.  The *)
(* step that starts a request also performs the handler's first storage    *)
(* call.  Path parameters and body fields are pure inputs: a step binds    *)
(* them where the handler first uses them.  A request that has computed    *)
(* its response stays in the bag at pc "done" until the response has been  *)
(* written out.                                                            *)
(***************************************************************************)
EXTENDS Integers, Sequences, FiniteSets, Bags, TLC

\* ------------------------------------------------------------- bounds
MaxRows == 2        \* rows a table may hold before inserts are cut off
MaxInflight == 2    \* requests handled concurrently

\* ------------------------------------------------------------- domains
UserIds == {"u1", "u2", "adm"}
userRoleEnum == {"candidate", "company", "admin"}
companyStatusEnum == {"pending", "approved", "rejected"}
projectStatusEnum == {"pending", "approved", "active", "completed", "cancelled"}
submissionStatusEnum == {"pending", "under_review", "approved", "rejected"}

\* decimal(10,2) amounts, held exactly as a number of cents
PaymentInputs == {10000, 25000}
\* req.body.payment where the amount does not matter
PaymentAnyOne == {25000}
\* req.body.rating; 0 = absent (any falsy value)
RatingInputs == {0, 5, 6}
\* req.body.rating where only its presence matters
RatingGivenOrNot == {0, 5}
\* req.body.feedback
FeedbackInputs == {"great"}

\* ids a request may name for table t: every row's id and one id that
\* resolves to no row
Ids(t) == 1..(IF Len(t) < MaxRows THEN Len(t) + 1 ELSE MaxRows)

VARIABLES
    users,        \* users table: id -> [role]
    companies,    \* companies table, row id = position
    projects,     \* projects table
    submissions,  \* submissions table
    ratings,      \* ratings table
    payments,     \* payments table
    reqs          \* bag of the requests being handled

vars == <<users, companies, projects, submissions, ratings, payments, reqs>>

\* ------------------------------------------------------------- requests
\* A request: its inputs (user, arg, approved, rating, feedback), the
\* handler's local variables (company, cand, proj, pay), its response
\* status (resp), and a record of what it observed and wrote:
\*   seen  - the status the handler read in the row it loaded
\*   owned - whether the handler's duplicate lookup found a row (a company
\*           of the caller, a submission of the caller to the project)
\*   did   - the writes the request has applied
\*   late  - the status the parent row had at the moment of the insert
\* For a request behind the role gate, `seen` is the role of the User row the
\* gate loaded (req.dbUser), and `message` the message of the gate's rejection.
\* `out` is the JSON body of a statistics response.  `threw` records that a
\* storage call of the request rejected.
NoReq ==
    [kind |-> "none", pc |-> "start", user |-> "none", arg |-> 0,
     approved |-> FALSE, rating |-> 0, feedback |-> "undefined",
     company |-> 0, cand |-> "none", proj |-> 0, pay |-> 0,
     seen |-> "none", owned |-> FALSE, did |-> {}, late |-> "none", resp |-> 0,
     message |-> "none", out |-> <<>>, threw |-> FALSE]

Inflight == BagToSet(reqs)

CanAccept == BagCardinality(reqs) < MaxInflight

Accept(q) == reqs' = reqs (+) SetToBag({q})

Step(q, q2) == reqs' = (reqs (-) SetToBag({q})) (+) SetToBag({q2})

At(q, k, p) == q.kind = k /\ q.pc = p

\* res.status(code).json(...) ends the handler; the locals die with it
Reply(q, code) ==
    [q EXCEPT !.pc = "done", !.resp = code, !.rating = 0, !.feedback = "undefined",
              !.company = 0, !.cand = "none", !.proj = 0, !.pay = 0]

\* the response has been written out
Respond(q) ==
    /\ q.pc = "done"
    /\ reqs' = reqs (-) SetToBag({q})
    /\ UNCHANGED <<users, companies, projects, submissions, ratings, payments>>

\* ------------------------------------------------------------- storage
\* `const [row] = await db.select()...where(...)`: the first row of a result
\* whose order the query does not fix, so any matching row; the getters
\* below return the set of matching row ids.
getUser(id) == IF id \in DOMAIN users THEN {id} ELSE {}

getCompanyByUserId(userId) == {i \in 1..Len(companies) : companies[i].userId = userId}

getProject(id) == {i \in 1..Len(projects) : i = id}

getSubmission(id) == {i \in 1..Len(submissions) : i = id}

getSubmissionByProjectAndCandidate(projectId, candidateId) ==
    {i \in 1..Len(submissions) :
        submissions[i].projectId = projectId /\ submissions[i].candidateId = candidateId}

\* update(users).set({...updates, updatedAt: new Date()}).where(id = ...): a
\* key whose value is undefined is left out.  A specification's User rows
\* carry the columns it needs (role everywhere); a column that the rows do
\* not carry is not kept.
updateUserProfile_EveryRow(id, updates) ==
    [u \in DOMAIN users |->
       [c \in DOMAIN users[u] |->
          IF c = "updatedAt" THEN "now"
          ELSE IF c \in DOMAIN updates /\ updates[c] # "undefined" THEN updates[c]
          ELSE users[u][c]]]

updateUserProfile(id, updates) ==
    IF id \in DOMAIN users
    THEN [users EXCEPT ![id] =
            [c \in DOMAIN users[id] |->
               IF c = "updatedAt" THEN "now"
               ELSE IF c \in DOMAIN updates /\ updates[c] # "undefined" THEN updates[c]
               ELSE users[id][c]]]
    ELSE users

createCompany(userId, status) ==
    Append(companies, [userId |-> userId, status |-> status])

updateCompany(id, status) ==
    IF id \in 1..Len(companies) THEN [companies EXCEPT ![id].status = status]
    ELSE companies

createProject(companyId, payment, status) ==
    Append(projects, [companyId |-> companyId, payment |-> payment, status |-> status])

updateProject(id, status) ==
    IF id \in 1..Len(projects) THEN [projects EXCEPT ![id].status = status]
    ELSE projects

createRating_Upsert(submissionId, candidateId, companyId, score, review) ==
    LET row == [submissionId |-> submissionId, candidateId |-> candidateId,
                companyId |-> companyId, score |-> score, review |-> review]
        old == {i \in 1..Len(ratings) : ratings[i].submissionId = submissionId}
    IN  IF old = {} THEN Append(ratings, row)
        ELSE [i \in 1..Len(ratings) |-> IF i \in old THEN row ELSE ratings[i]]

createRating(submissionId, candidateId, companyId, score, review) ==
    Append(ratings, [submissionId |-> submissionId, candidateId |-> candidateId,
                     companyId |-> companyId, score |-> score, review |-> review])

createPayment_PayReviewer(submissionId, candidateId, companyId, amount, status) ==
    Append(payments, [submissionId |-> submissionId,
                      candidateId |-> companies[companyId].userId,
                      companyId |-> companyId, amount |-> amount, status |-> status])

createPayment(submissionId, candidateId, companyId, amount, status) ==
    Append(payments, [submissionId |-> submissionId, candidateId |-> candidateId,
                      companyId |-> companyId, amount |-> amount, status |-> status])

createSubmission(projectId, candidateId, status) ==
    Append(submissions, [projectId |-> projectId, candidateId |-> candidateId,
                         status |-> status, feedback |-> "null"])

\* set({status, feedback, updatedAt}): a key whose value is undefined is left out
updateSubmission(id, status, feedback) ==
    IF id \in 1..Len(submissions)
    THEN [submissions EXCEPT ![id].status = status,
                             ![id].feedback = IF feedback = "undefined" THEN @ ELSE feedback]
    ELSE submissions

\* ---- statistics (storage.ts, "Stats")
\* A numeric value as the driver hands it over: text.  `cents` is the value
\* in hundredths and `scale` the number of fraction digits of the text:
\* SUM over decimal(10,2) gives "250.00", the literal of COALESCE(..., 0) "0".
NumericText(cents, scale) == [cents |-> cents, scale |-> scale]

RECURSIVE SumOf(_)
SumOf(numbers) == IF numbers = <<>> THEN 0 ELSE Head(numbers) + SumOf(Tail(numbers))

\* `kept` below: the rows that a statement's where clause keeps
\* select count(*)
CountWhere(kept) == Len(kept)

\* select COALESCE(SUM(amount), 0)
SumAmountWhere(kept) ==
    IF kept = <<>> THEN NumericText(0, 0)
    ELSE NumericText(SumOf([i \in 1..Len(kept) |-> kept[i].amount]), 2)

\* Number(avg) of select COALESCE(AVG(score), 0): the mean in thousandths,
\* rounded half up
AvgScoreWhere(kept) ==
    LET n == Len(kept)
    IN  IF n = 0 THEN 0
        ELSE (2000 * SumOf([i \in 1..n |-> kept[i].score]) + n) \div (2 * n)

getAdminStats_PendingIsAll ==
    [totalUsers |-> Cardinality(DOMAIN users),
     totalCompanies |-> CountWhere(SelectSeq(companies, LAMBDA c : TRUE)),
     totalProjects |-> CountWhere(SelectSeq(projects, LAMBDA p : TRUE)),
     pendingCompanies |-> CountWhere(SelectSeq(companies, LAMBDA c : TRUE)),
     pendingProjects |-> CountWhere(SelectSeq(projects, LAMBDA p : TRUE)),
     totalPayouts |-> SumAmountWhere(SelectSeq(payments, LAMBDA p : p.status = "paid"))]

getAdminStats ==
    [totalUsers |-> Cardinality(DOMAIN users),
     totalCompanies |-> CountWhere(SelectSeq(companies, LAMBDA c : TRUE)),
     totalProjects |-> CountWhere(SelectSeq(projects, LAMBDA p : TRUE)),
     pendingCompanies |-> CountWhere(SelectSeq(companies, LAMBDA c : c.status = "pending")),
     pendingProjects |-> CountWhere(SelectSeq(projects, LAMBDA p : p.status = "pending")),
     totalPayouts |-> SumAmountWhere(SelectSeq(payments, LAMBDA p : p.status = "paid"))]

getCandidateStats_AverageOfNone(candidateId) ==
    LET own == SelectSeq(ratings, LAMBDA r : r.candidateId = candidateId)
    IN  [totalSubmissions |-> CountWhere(SelectSeq(submissions, LAMBDA s : s.candidateId = candidateId)),
         completedProjects |->
            CountWhere(SelectSeq(submissions,
                       LAMBDA s : s.candidateId = candidateId /\ s.status = "approved")),
         totalEarnings |->
            SumAmountWhere(SelectSeq(payments,
                           LAMBDA p : p.candidateId = candidateId /\ p.status = "paid")),
         averageRating |->
            IF own = <<>> THEN -1
            ELSE AvgScoreWhere(SelectSeq(ratings, LAMBDA r : r.candidateId = candidateId))]

getCandidateStats_AnyStatus(candidateId) ==
    [totalSubmissions |-> CountWhere(SelectSeq(submissions, LAMBDA s : s.candidateId = candidateId)),
     completedProjects |-> CountWhere(SelectSeq(submissions, LAMBDA s : s.candidateId = candidateId)),
     totalEarnings |->
        SumAmountWhere(SelectSeq(payments,
                       LAMBDA p : p.candidateId = candidateId /\ p.status = "paid")),
     averageRating |-> AvgScoreWhere(SelectSeq(ratings, LAMBDA r : r.candidateId = candidateId))]

getCandidateStats(candidateId) ==
    [totalSubmissions |-> CountWhere(SelectSeq(submissions, LAMBDA s : s.candidateId = candidateId)),
     completedProjects |->
        CountWhere(SelectSeq(submissions,
                   LAMBDA s : s.candidateId = candidateId /\ s.status = "approved")),
     totalEarnings |->
        SumAmountWhere(SelectSeq(payments,
                       LAMBDA p : p.candidateId = candidateId /\ p.status = "paid")),
     averageRating |-> AvgScoreWhere(SelectSeq(ratings, LAMBDA r : r.candidateId = candidateId))]

getCompanyStats_AllPaid(companyId) ==
    [totalProjects |-> CountWhere(SelectSeq(projects, LAMBDA p : p.companyId = companyId)),
     activeProjects |->
        CountWhere(SelectSeq(projects, LAMBDA p : p.companyId = companyId /\ p.status = "active")),
     totalSubmissions |-> CountWhere(SelectSeq(submissions, LAMBDA s : TRUE)),
     totalSpent |-> SumAmountWhere(SelectSeq(payments, LAMBDA p : p.status = "paid"))]

getCompanyStats(companyId) ==
    LET projectIds == {i \in 1..Len(projects) : projects[i].companyId = companyId}
    IN  [totalProjects |-> CountWhere(SelectSeq(projects, LAMBDA p : p.companyId = companyId)),
         activeProjects |->
            CountWhere(SelectSeq(projects, LAMBDA p : p.companyId = companyId /\ p.status = "active")),
         totalSubmissions |->
            IF projectIds # {}
            THEN CountWhere(SelectSeq(submissions, LAMBDA s : s.projectId \in projectIds))
            ELSE 0,
         totalSpent |->
            IF projectIds # {}
            THEN SumAmountWhere(SelectSeq(payments,
                                LAMBDA p : p.companyId = companyId /\ p.status = "paid"))
            ELSE NumericText(0, 0)]

\* ------------------------------------------------------------- handlers
\* catch (error) { res.status(500).json(...) }: a storage call that rejects
\* (connection loss, a violated column constraint) ends the handler at the
\* call, with nothing of the call applied.
StorageCalls ==
    {"updateUserProfile", "createCompany", "updateCompany", "createProject",
     "updateProject", "getSubmissionByProjectAndCandidate", "createSubmission",
     "getSubmission", "getProject", "updateSubmission", "createRating",
     "createPayment", "getCompanyStats", "getAdminStats"}

\* the message each catch block sends; a request that has not passed its first
\* storage call is still inside requireRole on the routes behind the gate
FailureMessage(q) ==
    IF q.pc = "start" /\ q.kind \in {"AdminCompanyReview", "AdminProjectReview", "GetAdminStats"}
    THEN "Authorization error"
    ELSE CASE q.kind = "PostCompanyProfile" -> "Failed to create company"
           [] q.kind = "AdminCompanyReview" -> "Failed to review company"
           [] q.kind = "PostCompanyProjects" -> "Failed to create project"
           [] q.kind = "AdminProjectReview" -> "Failed to review project"
           [] q.kind = "PostSubmission" -> "Failed to create submission"
           [] q.kind = "PostReview" -> "Failed to review submission"
           [] q.kind = "PatchProfile" -> "Failed to update profile"
           [] OTHER -> "Failed to fetch stats"

Caught_ReportsSuccess(q) == Reply([q EXCEPT !.threw = TRUE], 200)

Caught(q) == Reply([q EXCEPT !.threw = TRUE, !.message = FailureMessage(q)], 500)

DbFailure(q) ==
    /\ q.pc \in StorageCalls
    /\ Step(q, Caught(q))
    /\ UNCHANGED <<users, companies, projects, submissions, ratings, payments>>

\* the same catch, when it is the handler's (or the role gate's) first storage
\* call that rejects
DbFailureAtStart(k, u) ==
    /\ CanAccept
    /\ Accept(Caught([NoReq EXCEPT !.kind = k, !.user = u]))
    /\ UNCHANGED <<users, companies, projects, submissions, ratings, payments>>

\* allowedRoles.includes(user.role): the persisted role decides
RoleAllowed_Any(allowedRoles, role) == TRUE

RoleAllowed(allowedRoles, role) == role \in allowedRoles

\* the identities a request may carry: a user's id, an id that resolves to
\* no User row, or a session without a subject claim
Identities == UserIds \cup {"ghost", "none"}

\* requireRole(allowedRoles): code 0 stands for next(); role is the role of
\* the User row the gate loaded, which next() finds attached as req.dbUser
requireRole_MissingUserIsForbidden(allowedRoles, sub) ==
    IF sub = "none"
    THEN [code |-> 401, message |-> "Unauthorized", role |-> "none"]
    ELSE IF getUser(sub) = {} \/ ~RoleAllowed(allowedRoles, users[sub].role)
    THEN [code |-> 403, message |-> "Insufficient permissions",
          role |-> IF getUser(sub) = {} THEN "none" ELSE users[sub].role]
    ELSE [code |-> 0, message |-> "none", role |-> users[sub].role]

requireRole(allowedRoles, sub) ==
    IF sub = "none"
    THEN [code |-> 401, message |-> "Unauthorized", role |-> "none"]
    ELSE IF getUser(sub) = {}
    THEN [code |-> 401, message |-> "User not found", role |-> "none"]
    ELSE IF ~RoleAllowed(allowedRoles, users[sub].role)
    THEN [code |-> 403, message |-> "Insufficient permissions",
          role |-> users[sub].role]
    ELSE [code |-> 0, message |-> "none", role |-> users[sub].role]

\* a request stopped by the gate
Rejected(q, gate) == Reply([q EXCEPT !.seen = gate.role, !.message = gate.message], gate.code)

\* ---- PATCH /api/profile
\* req.body: any JSON object; the fields a body may carry here
ProfileBodies ==
    {[firstName |-> f, bio |-> b, role |-> x[1], email |-> x[2]] :
        f \in {"undefined", "Ann"}, b \in {"undefined", "hello"},
        x \in {<<"undefined", "undefined">>, <<"admin", "eve@example.org">>}}

ProfileColumns == {"firstName", "lastName", "bio", "skills", "experience", "portfolioUrl"}

\* const { firstName, lastName, bio, skills, experience, portfolioUrl } = req.body
ProfileUpdates_WholeBody(body) == body

ProfileUpdates(body) ==
    [c \in ProfileColumns |-> IF c \in DOMAIN body THEN body[c] ELSE "undefined"]

PatchProfile(u, body) ==
    /\ CanAccept
    /\ users' = updateUserProfile(u, ProfileUpdates(body))
    /\ Accept(Reply([NoReq EXCEPT !.kind = "PatchProfile", !.user = u,
                                  !.did = {"profile"} \cup
                                     {"body.role" : x \in {body.role} \ {"undefined"}}],
                    200))
    /\ UNCHANGED <<companies, projects, submissions, ratings, payments>>

\* ---- POST /api/company/profile
AlreadyHasCompany_Never(existingCompany) == FALSE

AlreadyHasCompany(existingCompany) == existingCompany # {}

PostCompanyProfile(u) ==
    /\ CanAccept
    /\ LET existingCompany == getCompanyByUserId(u)
           q == [NoReq EXCEPT !.kind = "PostCompanyProfile", !.user = u,
                              !.owned = existingCompany # {}]
       IN  IF AlreadyHasCompany(existingCompany)
           THEN Accept(Reply(q, 400))
           ELSE Accept([q EXCEPT !.pc = "updateUserProfile"])
    /\ UNCHANGED <<users, companies, projects, submissions, ratings, payments>>

PostCompanyProfile_updateUserProfile(q) ==
    /\ At(q, "PostCompanyProfile", "updateUserProfile")
    /\ users' = updateUserProfile(q.user, [role |-> "company"])
    /\ Step(q, [q EXCEPT !.pc = "createCompany", !.did = @ \cup {"role"}])
    /\ UNCHANGED <<companies, projects, submissions, ratings, payments>>

PostCompanyProfile_createCompany(q) ==
    /\ At(q, "PostCompanyProfile", "createCompany")
    /\ Len(companies) < MaxRows
    /\ companies' = createCompany(q.user, "pending")
    /\ Step(q, Reply([q EXCEPT !.did = @ \cup {"company"}], 200))
    /\ UNCHANGED <<users, projects, submissions, ratings, payments>>

\* ---- POST /api/admin/companies/:id/review
CompanyReviewStatus(approved) == IF approved THEN "approved" ELSE "rejected"

AdminCompanyReview(u) ==
    /\ CanAccept
    /\ LET q == [NoReq EXCEPT !.kind = "AdminCompanyReview", !.user = u]
           gate == requireRole({"admin"}, u)
       IN  IF gate.code # 0 THEN Accept(Rejected(q, gate))
           ELSE Accept([q EXCEPT !.pc = "updateCompany", !.seen = gate.role])
    /\ UNCHANGED <<users, companies, projects, submissions, ratings, payments>>

AdminCompanyReview_updateCompany(q, id, approved) ==
    /\ At(q, "AdminCompanyReview", "updateCompany")
    /\ companies' = updateCompany(id, CompanyReviewStatus(approved))
    /\ Step(q, Reply([q EXCEPT !.arg = id, !.approved = approved,
                               !.did = @ \cup {"companyStatus"}], 200))
    /\ UNCHANGED <<users, projects, submissions, ratings, payments>>

\* ---- POST /api/company/projects
CompanyMayPost_Any(status) == TRUE

CompanyMayPost(status) == status = "approved"

PostCompanyProjects(u) ==
    /\ CanAccept
    /\ LET found == getCompanyByUserId(u)
           q == [NoReq EXCEPT !.kind = "PostCompanyProjects", !.user = u]
       IN  IF found = {}
           THEN Accept(Reply(q, 404))
           ELSE \E c \in found :
                  LET qc == [q EXCEPT !.seen = companies[c].status]
                  IN  IF ~CompanyMayPost(companies[c].status)
                      THEN Accept(Reply(qc, 403))
                      ELSE Accept([qc EXCEPT !.pc = "createProject", !.company = c])
    /\ UNCHANGED <<users, companies, projects, submissions, ratings, payments>>

PostCompanyProjects_createProject(q, payment) ==
    /\ At(q, "PostCompanyProjects", "createProject")
    /\ Len(projects) < MaxRows
    /\ projects' = createProject(q.company, payment, "pending")
    /\ Step(q, Reply([q EXCEPT !.did = @ \cup {"project"}], 200))
    /\ UNCHANGED <<users, companies, submissions, ratings, payments>>

\* ---- POST /api/admin/projects/:id/review
ProjectReviewStatus(approved) == IF approved THEN "active" ELSE "cancelled"

AdminProjectReview(u) ==
    /\ CanAccept
    /\ LET q == [NoReq EXCEPT !.kind = "AdminProjectReview", !.user = u]
           gate == requireRole({"admin"}, u)
       IN  IF gate.code # 0 THEN Accept(Rejected(q, gate))
           ELSE Accept([q EXCEPT !.pc = "updateProject", !.seen = gate.role])
    /\ UNCHANGED <<users, companies, projects, submissions, ratings, payments>>

AdminProjectReview_updateProject(q, id, approved) ==
    /\ At(q, "AdminProjectReview", "updateProject")
    /\ projects' = updateProject(id, ProjectReviewStatus(approved))
    /\ Step(q, Reply([q EXCEPT !.arg = id, !.approved = approved,
                               !.did = @ \cup {"projectStatus"}], 200))
    /\ UNCHANGED <<users, companies, submissions, ratings, payments>>

\* ---- POST /api/projects/:id/submissions
ProjectOpen(project) == project # {} /\ \A p \in project : projects[p].status = "active"

PostSubmission(u, projectId) ==
    /\ CanAccept
    /\ LET project == getProject(projectId)
           q == [NoReq EXCEPT !.kind = "PostSubmission", !.user = u, !.arg = projectId,
                              !.seen = IF project = {} THEN "missing"
                                       ELSE projects[projectId].status]
       IN  IF ~ProjectOpen(project)
           THEN Accept(Reply(q, 400))
           ELSE Accept([q EXCEPT !.pc = "getSubmissionByProjectAndCandidate"])
    /\ UNCHANGED <<users, companies, projects, submissions, ratings, payments>>

AlreadySubmitted_Never(existingSubmission) == FALSE

AlreadySubmitted(existingSubmission) == existingSubmission # {}

PostSubmission_getSubmissionByProjectAndCandidate(q) ==
    /\ At(q, "PostSubmission", "getSubmissionByProjectAndCandidate")
    /\ LET existingSubmission == getSubmissionByProjectAndCandidate(q.arg, q.user)
       IN  IF AlreadySubmitted(existingSubmission)
           THEN Step(q, Reply([q EXCEPT !.owned = TRUE], 400))
           ELSE Step(q, [q EXCEPT !.pc = "createSubmission"])
    /\ UNCHANGED <<users, companies, projects, submissions, ratings, payments>>

PostSubmission_createSubmission(q) ==
    /\ At(q, "PostSubmission", "createSubmission")
    /\ Len(submissions) < MaxRows
    /\ submissions' = createSubmission(q.arg, q.user, "pending")
    /\ Step(q, Reply([q EXCEPT !.did = @ \cup {"submission"},
                               !.late = projects[q.arg].status], 200))
    /\ UNCHANGED <<users, companies, projects, ratings, payments>>

\* ---- POST /api/company/submissions/:id/review
SubmissionReviewStatus(approved) == IF approved THEN "approved" ELSE "rejected"

OwnsProject_Any(project, company) == TRUE

OwnsProject(project, company) ==
    project # {} /\ \A p \in project : projects[p].companyId = company

PostReview(u) ==
    /\ CanAccept
    /\ LET found == getCompanyByUserId(u)
           q == [NoReq EXCEPT !.kind = "PostReview", !.user = u]
       IN  IF found = {}
           THEN Accept(Reply(q, 404))
           ELSE \E c \in found : Accept([q EXCEPT !.pc = "getSubmission", !.company = c])
    /\ UNCHANGED <<users, companies, projects, submissions, ratings, payments>>

PostReview_getSubmission(q, submissionId) ==
    /\ At(q, "PostReview", "getSubmission")
    /\ LET submission == getSubmission(submissionId)
           qs == [q EXCEPT !.arg = submissionId]
       IN  IF submission = {}
           THEN Step(q, Reply(qs, 404))
           ELSE Step(q, [qs EXCEPT !.pc = "getProject",
                                   !.cand = submissions[submissionId].candidateId,
                                   !.proj = submissions[submissionId].projectId,
                                   !.seen = submissions[submissionId].status])
    /\ UNCHANGED <<users, companies, projects, submissions, ratings, payments>>

PostReview_getProject(q) ==
    /\ At(q, "PostReview", "getProject")
    /\ LET project == getProject(q.proj)
       IN  IF ~OwnsProject(project, q.company)
           THEN Step(q, Reply(q, 403))
           ELSE Step(q, [q EXCEPT !.pc = "updateSubmission",
                                  !.pay = projects[q.proj].payment])
    /\ UNCHANGED <<users, companies, projects, submissions, ratings, payments>>

\* after the status update: `if (approved) { if (ratingScore) ...rating; payment }`
AfterUpdate_RatingFirst(q) ==
    IF q.rating # 0 THEN [q EXCEPT !.pc = "createRating"]
    ELSE IF ~q.approved THEN Reply(q, 200)
    ELSE [q EXCEPT !.pc = "createPayment", !.feedback = "undefined"]

AfterUpdate(q) ==
    IF ~q.approved THEN Reply(q, 200)
    ELSE IF q.rating # 0 THEN [q EXCEPT !.pc = "createRating"]
    ELSE [q EXCEPT !.pc = "createPayment", !.feedback = "undefined"]

PostReview_updateSubmission(q, approved, ratingScore, feedback) ==
    /\ At(q, "PostReview", "updateSubmission")
    /\ submissions' = updateSubmission(q.arg, SubmissionReviewStatus(approved), feedback)
    /\ Step(q, AfterUpdate([q EXCEPT !.approved = approved, !.rating = ratingScore,
                                     !.feedback = feedback, !.did = @ \cup {"status"}]))
    /\ UNCHANGED <<users, companies, projects, ratings, payments>>

\* feedback is not read again after the rating insert
PostReview_createRating(q) ==
    /\ At(q, "PostReview", "createRating")
    /\ Len(ratings) < MaxRows
    /\ ratings' = createRating(q.arg, q.cand, q.company, q.rating, q.feedback)
    /\ Step(q, [q EXCEPT !.pc = "createPayment", !.feedback = "undefined",
                         !.did = @ \cup {"rating"}])
    /\ UNCHANGED <<users, companies, projects, submissions, payments>>

PostReview_createPayment(q) ==
    /\ At(q, "PostReview", "createPayment")
    /\ Len(payments) < MaxRows
    /\ payments' = createPayment(q.arg, q.cand, q.company, q.pay, "paid")
    /\ Step(q, Reply([q EXCEPT !.did = @ \cup {"payment"}], 200))
    /\ UNCHANGED <<users, companies, projects, submissions, ratings>>

\* ---- GET /api/candidate/stats
GetCandidateStats(u) ==
    /\ CanAccept
    /\ Accept(Reply([NoReq EXCEPT !.kind = "GetCandidateStats", !.user = u,
                                  !.out = getCandidateStats(u)], 200))
    /\ UNCHANGED <<users, companies, projects, submissions, ratings, payments>>

\* ---- GET /api/company/stats
GetCompanyStats(u) ==
    /\ CanAccept
    /\ LET found == getCompanyByUserId(u)
           q == [NoReq EXCEPT !.kind = "GetCompanyStats", !.user = u]
       IN  IF found = {}
           THEN Accept(Reply(q, 404))
           ELSE \E c \in found : Accept([q EXCEPT !.pc = "getCompanyStats", !.arg = c])
    /\ UNCHANGED <<users, companies, projects, submissions, ratings, payments>>

GetCompanyStats_getCompanyStats(q) ==
    /\ At(q, "GetCompanyStats", "getCompanyStats")
    /\ Step(q, Reply([q EXCEPT !.out = getCompanyStats(q.arg)], 200))
    /\ UNCHANGED <<users, companies, projects, submissions, ratings, payments>>

\* ---- GET /api/admin/stats
GetAdminStats(u) ==
    /\ CanAccept
    /\ LET q == [NoReq EXCEPT !.kind = "GetAdminStats", !.user = u]
           gate == requireRole({"admin"}, u)
       IN  IF gate.code # 0 THEN Accept(Rejected(q, gate))
           ELSE Accept([q EXCEPT !.pc = "getAdminStats", !.seen = gate.role])
    /\ UNCHANGED <<users, companies, projects, submissions, ratings, payments>>

GetAdminStats_getAdminStats(q) ==
    /\ At(q, "GetAdminStats", "getAdminStats")
    /\ Step(q, Reply([q EXCEPT !.out = getAdminStats], 200))
    /\ UNCHANGED <<users, companies, projects, submissions, ratings, payments>>

\* ------------------------------------------------------------- specifications
\* Company onboarding on a fresh deployment.
InitCompany ==
    /\ users = [u \in {"u1", "adm"} |-> [role |-> IF u = "adm" THEN "admin" ELSE "candidate"]]
    /\ companies = <<>>
    /\ projects = <<>>
    /\ submissions = <<>>
    /\ ratings = <<>>
    /\ payments = <<>>
    /\ reqs = EmptyBag

NextCompany ==
    \/ \E u \in DOMAIN users : PostCompanyProfile(u)
    \/ \E q \in Inflight : PostCompanyProfile_updateUserProfile(q)
    \/ \E q \in Inflight : PostCompanyProfile_createCompany(q)
    \/ \E u \in DOMAIN users : AdminCompanyReview(u)
    \/ \E q \in Inflight, id \in Ids(companies), approved \in BOOLEAN :
          AdminCompanyReview_updateCompany(q, id, approved)
    \/ \E q \in Inflight : DbFailure(q)
    \/ \E k \in {"PostCompanyProfile", "AdminCompanyReview"}, u \in DOMAIN users :
          DbFailureAtStart(k, u)
    \/ \E q \in Inflight : Respond(q)

SpecCompany == InitCompany /\ [][NextCompany]_vars

\* Project posting, once u1 has created a company profile.
InitProject ==
    /\ users = [u \in {"u1", "adm"} |-> [role |-> IF u = "adm" THEN "admin" ELSE "company"]]
    /\ companies = <<[userId |-> "u1", status |-> "pending"]>>
    /\ projects = <<>>
    /\ submissions = <<>>
    /\ ratings = <<>>
    /\ payments = <<>>
    /\ reqs = EmptyBag

NextProject ==
    \/ \E u \in DOMAIN users : AdminCompanyReview(u)
    \/ \E q \in Inflight, id \in Ids(companies), approved \in BOOLEAN :
          AdminCompanyReview_updateCompany(q, id, approved)
    \/ \E u \in DOMAIN users : PostCompanyProjects(u)
    \/ \E q \in Inflight, payment \in PaymentInputs :
          PostCompanyProjects_createProject(q, payment)
    \/ \E q \in Inflight : DbFailure(q)
    \/ \E k \in {"PostCompanyProjects", "AdminCompanyReview"}, u \in DOMAIN users :
          DbFailureAtStart(k, u)
    \/ \E q \in Inflight : Respond(q)

SpecProject == InitProject /\ [][NextProject]_vars

\* Submitting, once the approved company of u1 has posted a project.
InitSubmit ==
    /\ users = [u \in UserIds |->
                  [role |-> CASE u = "adm" -> "admin" [] u = "u1" -> "company"
                                 [] OTHER -> "candidate"]]
    /\ companies = <<[userId |-> "u1", status |-> "approved"]>>
    /\ projects = <<[companyId |-> 1, payment |-> 25000, status |-> "pending"]>>
    /\ submissions = <<>>
    /\ ratings = <<>>
    /\ payments = <<>>
    /\ reqs = EmptyBag

NextSubmit ==
    \/ \E u \in DOMAIN users : AdminProjectReview(u)
    \/ \E q \in Inflight, id \in Ids(projects), approved \in BOOLEAN :
          AdminProjectReview_updateProject(q, id, approved)
    \/ \E u \in DOMAIN users, id \in Ids(projects) : PostSubmission(u, id)
    \/ \E q \in Inflight : PostSubmission_getSubmissionByProjectAndCandidate(q)
    \/ \E q \in Inflight : PostSubmission_createSubmission(q)
    \/ \E q \in Inflight : DbFailure(q)
    \/ \E k \in {"PostSubmission", "AdminProjectReview"}, u \in DOMAIN users :
          DbFailureAtStart(k, u)
    \/ \E q \in Inflight : Respond(q)

SpecSubmit == InitSubmit /\ [][NextSubmit]_vars

\* Reviewing, once candidate u2 has submitted to the active project.
InitReview ==
    /\ users = [u \in {"u1", "u2"} |-> [role |-> IF u = "u1" THEN "company" ELSE "candidate"]]
    /\ companies = <<[userId |-> "u1", status |-> "approved"]>>
    /\ projects = <<[companyId |-> 1, payment |-> 25000, status |-> "active"]>>
    /\ submissions = <<[projectId |-> 1, candidateId |-> "u2", status |-> "pending",
                        feedback |-> "null"]>>
    /\ ratings = <<>>
    /\ payments = <<>>
    /\ reqs = EmptyBag

NextReview ==
    \/ \E u \in DOMAIN users : PostReview(u)
    \/ \E q \in Inflight, id \in Ids(submissions) : PostReview_getSubmission(q, id)
    \/ \E q \in Inflight : PostReview_getProject(q)
    \/ \E q \in Inflight, approved \in BOOLEAN, ratingScore \in RatingInputs,
          feedback \in FeedbackInputs :
          PostReview_updateSubmission(q, approved, ratingScore, feedback)
    \/ \E q \in Inflight : PostReview_createRating(q)
    \/ \E q \in Inflight : PostReview_createPayment(q)
    \/ \E q \in Inflight : DbFailure(q)
    \/ \E u \in DOMAIN users : DbFailureAtStart("PostReview", u)
    \/ \E q \in Inflight : Respond(q)

SpecReview == InitReview /\ [][NextReview]_vars

\* Administration, once the approved company of u1 has posted a project:
\* reviews sent to the admin endpoints by every identity, next to project
\* posting.
InitAdmin ==
    /\ users = [u \in UserIds |->
                  [role |-> CASE u = "adm" -> "admin" [] u = "u1" -> "company"
                                 [] OTHER -> "candidate"]]
    /\ companies = <<[userId |-> "u1", status |-> "approved"]>>
    /\ projects = <<[companyId |-> 1, payment |-> 25000, status |-> "pending"]>>
    /\ submissions = <<>>
    /\ ratings = <<>>
    /\ payments = <<>>
    /\ reqs = EmptyBag

NextAdmin ==
    \/ \E u \in Identities : AdminCompanyReview(u)
    \/ \E q \in Inflight, id \in Ids(companies), approved \in BOOLEAN :
          AdminCompanyReview_updateCompany(q, id, approved)
    \/ \E u \in Identities : AdminProjectReview(u)
    \/ \E q \in Inflight, id \in Ids(projects), approved \in BOOLEAN :
          AdminProjectReview_updateProject(q, id, approved)
    \/ \E u \in DOMAIN users : PostCompanyProjects(u)
    \/ \E q \in Inflight, payment \in PaymentAnyOne :
          PostCompanyProjects_createProject(q, payment)
    \/ \E q \in Inflight : DbFailure(q)
    \/ \E k \in {"AdminCompanyReview", "AdminProjectReview"}, u \in Identities \ {"none"} :
          DbFailureAtStart(k, u)
    \/ \E q \in Inflight : Respond(q)

SpecAdmin == InitAdmin /\ [][NextAdmin]_vars

\* Reviewing by every kind of caller: u1 owns the company of the project, u2
\* submitted to it and later created a company of their own, adm owns none.
InitOwnership ==
    /\ users = [u \in UserIds |-> [role |-> IF u = "adm" THEN "admin" ELSE "company"]]
    /\ companies = <<[userId |-> "u1", status |-> "approved"],
                     [userId |-> "u2", status |-> "pending"]>>
    /\ projects = <<[companyId |-> 1, payment |-> 25000, status |-> "active"]>>
    /\ submissions = <<[projectId |-> 1, candidateId |-> "u2", status |-> "pending",
                        feedback |-> "null"]>>
    /\ ratings = <<>>
    /\ payments = <<>>
    /\ reqs = EmptyBag

NextOwnership ==
    \/ \E u \in DOMAIN users : PostReview(u)
    \/ \E q \in Inflight, id \in Ids(submissions) : PostReview_getSubmission(q, id)
    \/ \E q \in Inflight : PostReview_getProject(q)
    \/ \E q \in Inflight, approved \in BOOLEAN, ratingScore \in RatingGivenOrNot,
          feedback \in FeedbackInputs :
          PostReview_updateSubmission(q, approved, ratingScore, feedback)
    \/ \E q \in Inflight : PostReview_createRating(q)
    \/ \E q \in Inflight : PostReview_createPayment(q)
    \/ \E q \in Inflight : DbFailure(q)
    \/ \E u \in DOMAIN users : DbFailureAtStart("PostReview", u)
    \/ \E q \in Inflight : Respond(q)

SpecOwnership == InitOwnership /\ [][NextOwnership]_vars

\* Statistics over the states that completed reviews leave behind.  The
\* owner u1 has reviewed the submission of u2 zero or more times, one
\* review after the other, each review running to its 200 response (a
\* reviewed submission can be reviewed again); the company of u1 may have
\* posted a second project, still pending.  No request writes while the
\* views are read.
ReviewHistories ==
    UNION {[1..n -> [approved : BOOLEAN, rating : RatingInputs]] : n \in 0..MaxRows}

InitStats ==
    \E history \in ReviewHistories, second \in BOOLEAN :
       LET approvals == SelectSeq(history, LAMBDA r : r.approved)
           rated == SelectSeq(approvals, LAMBDA r : r.rating # 0)
       IN  /\ users = [u \in UserIds |->
                         [role |-> IF u = "adm" THEN "admin" ELSE "company"]]
           /\ companies = <<[userId |-> "u1", status |-> "approved"],
                            [userId |-> "u2", status |-> "pending"]>>
           /\ projects =
                 <<[companyId |-> 1, payment |-> 25000, status |-> "active"]>> \o
                 (IF second
                  THEN <<[companyId |-> 1, payment |-> 10000, status |-> "pending"]>>
                  ELSE <<>>)
           /\ submissions =
                 <<[projectId |-> 1, candidateId |-> "u2",
                    status |-> IF history = <<>> THEN "pending"
                               ELSE SubmissionReviewStatus(history[Len(history)].approved),
                    feedback |-> IF history = <<>> THEN "null" ELSE "great"]>>
           /\ ratings = [i \in 1..Len(rated) |->
                           [submissionId |-> 1, candidateId |-> "u2", companyId |-> 1,
                            score |-> rated[i].rating, review |-> "great"]]
           /\ payments = [i \in 1..Len(approvals) |->
                            [submissionId |-> 1, candidateId |-> "u2", companyId |-> 1,
                             amount |-> 25000, status |-> "paid"]]
           /\ reqs = EmptyBag

NextStats ==
    \/ \E u \in DOMAIN users : GetCandidateStats(u)
    \/ \E u \in DOMAIN users : GetCompanyStats(u)
    \/ \E q \in Inflight : GetCompanyStats_getCompanyStats(q)
    \/ \E u \in DOMAIN users : GetAdminStats(u)
    \/ \E q \in Inflight : GetAdminStats_getAdminStats(q)
    \/ \E q \in Inflight : DbFailure(q)
    \/ \E k \in {"GetCandidateStats", "GetCompanyStats", "GetAdminStats"},
          u \in DOMAIN users : DbFailureAtStart(k, u)
    \/ \E q \in Inflight : Respond(q)

SpecStats == InitStats /\ [][NextStats]_vars

\* Profile editing on a fresh deployment, next to company onboarding; the
\* User rows carry the profile columns.
InitProfile ==
    /\ users = [u \in {"u1", "adm"} |->
                  [role |-> IF u = "adm" THEN "admin" ELSE "candidate",
                   email |-> IF u = "adm" THEN "root@example.org" ELSE "u1@example.org",
                   firstName |-> "null", lastName |-> "null", bio |-> "null",
                   skills |-> "null", experience |-> "null", portfolioUrl |-> "null",
                   updatedAt |-> "created"]]
    /\ companies = <<>>
    /\ projects = <<>>
    /\ submissions = <<>>
    /\ ratings = <<>>
    /\ payments = <<>>
    /\ reqs = EmptyBag

NextProfile ==
    \/ \E u \in DOMAIN users \cup {"ghost"}, body \in ProfileBodies : PatchProfile(u, body)
    \/ \E u \in DOMAIN users : PostCompanyProfile(u)
    \/ \E q \in Inflight : PostCompanyProfile_updateUserProfile(q)
    \/ \E q \in Inflight : PostCompanyProfile_createCompany(q)
    \/ \E q \in Inflight : DbFailure(q)
    \/ \E k \in {"PatchProfile", "PostCompanyProfile"}, u \in DOMAIN users :
          DbFailureAtStart(k, u)
    \/ \E q \in Inflight : Respond(q)

SpecProfile == InitProfile /\ [][NextProfile]_vars

\* Two approved companies with one active project each; both users may
\* submit to either project and both may ask to review.
ReviewApproves == {TRUE}

RatingGiven == {5}

\* the submission id of the review requests: the first row, once it exists
FirstSubmission == {1}

InitLineage ==
    /\ users = [u \in {"u1", "u2"} |-> [role |-> "company"]]
    /\ companies = <<[userId |-> "u1", status |-> "approved"],
                     [userId |-> "u2", status |-> "approved"]>>
    /\ projects = <<[companyId |-> 1, payment |-> 25000, status |-> "active"],
                    [companyId |-> 2, payment |-> 10000, status |-> "active"]>>
    /\ submissions = <<>>
    /\ ratings = <<>>
    /\ payments = <<>>
    /\ reqs = EmptyBag

NextLineage ==
    \/ \E u \in DOMAIN users, id \in DOMAIN projects : PostSubmission(u, id)
    \/ \E q \in Inflight : PostSubmission_getSubmissionByProjectAndCandidate(q)
    \/ \E q \in Inflight : PostSubmission_createSubmission(q)
    \/ \E u \in DOMAIN users : PostReview(u)
    \/ \E q \in Inflight, id \in FirstSubmission : PostReview_getSubmission(q, id)
    \/ \E q \in Inflight : PostReview_getProject(q)
    \/ \E q \in Inflight, approved \in ReviewApproves, ratingScore \in RatingGiven,
          feedback \in FeedbackInputs :
          PostReview_updateSubmission(q, approved, ratingScore, feedback)
    \/ \E q \in Inflight : PostReview_createRating(q)
    \/ \E q \in Inflight : PostReview_createPayment(q)
    \/ \E q \in Inflight : Respond(q)

SpecLineage == InitLineage /\ [][NextLineage]_vars

\* ------------------------------------------------------------- properties
Requests(k) == {q \in Inflight : q.kind = k}

Finished(k) == {q \in Requests(k) : q.pc = "done"}

\* two requests being handled at once satisfy P: two records, or one record
\* held twice
Twice(P(_)) ==
    \E q1 \in Inflight :
       /\ P(q1)
       /\ \/ CopiesIn(q1, reqs) >= 2
          \/ \E q2 \in Inflight \ {q1} : P(q2)

RatingsOf(s) == {i \in 1..Len(ratings) : ratings[i].submissionId = s}

PaymentsOf(s) == {i \in 1..Len(payments) : payments[i].submissionId = s}

\* C1: at most one Submission row exists per (projectId, candidateId) pair, for
\* any interleaving of concurrent create-submission requests.
C1_OneSubmissionPerPair ==
    \A i, j \in 1..Len(submissions) :
       (submissions[i].projectId = submissions[j].projectId
        /\ submissions[i].candidateId = submissions[j].candidateId) => i = j

\* C2: of two review requests handled concurrently for the same Submission
\* (both loaded it before either had updated it), at most one executes
\* settlement: they never both insert a Payment row.
C2_Settled(q, s) ==
    /\ q.kind = "PostReview" /\ q.arg = s
    /\ q.seen = "pending"
    /\ "payment" \in q.did

C2_OneSettlementPerSubmission ==
    \A s \in 1..Len(submissions) : ~Twice(LAMBDA q : C2_Settled(q, s))

\* C3: a review request on a Submission that is already approved or rejected
\* does not update it and is answered with an InvalidState error (400).
C3_ReviewOnlyOnce ==
    \A q \in Requests("PostReview") :
       q.seen \in {"approved", "rejected"} =>
          /\ q.did = {}
          /\ q.pc = "done" => q.resp = 400

\* C4: after a successful review with approved=true exactly one Payment row
\* exists for the Submission, with the Project's payment as amount and status
\* paid; a successful review with approved=false inserts no Payment row.
C4_ApprovalCreatesOnePayment ==
    \A q \in Finished("PostReview") :
       q.resp = 200 =>
          IF q.approved
          THEN /\ Cardinality(PaymentsOf(q.arg)) = 1
               /\ \A p \in PaymentsOf(q.arg) :
                     /\ payments[p].amount = projects[submissions[q.arg].projectId].payment
                     /\ payments[p].status = "paid"
          ELSE "payment" \notin q.did

\* C5: a review request that fails (500) has changed nothing: neither the
\* Submission's status and feedback, nor the Rating rows, nor the Payment rows.
C5_ReviewAllOrNothing ==
    \A q \in Finished("PostReview") : q.resp = 500 => q.did = {}

\* C6: after a company-profile request, successful or failed, the role change
\* and the Company row are both present or both absent.
C6_CompanyCreationAtomic ==
    \A q \in Finished("PostCompanyProfile") :
       /\ ("role" \in q.did) <=> ("company" \in q.did)
       /\ "role" \in q.did => getCompanyByUserId(q.user) # {}

\* C7: a company-profile request by a user who already owns a Company is
\* answered with the duplicate-company error (400) and writes nothing.
C7_DuplicateCompanyRejected ==
    \A q \in Requests("PostCompanyProfile") :
       q.owned => q.pc = "done" /\ q.resp = 400 /\ q.did = {}

C7_Witness ==
    \E q \in Finished("PostCompanyProfile") :
       q.owned /\ q.resp = 400 /\ getCompanyByUserId(q.user) # {}

\* C8: each user owns at most one Company row, for any interleaving of
\* concurrent company-profile requests by the same user.
C8_OneCompanyPerUser ==
    \A u \in DOMAIN users : Cardinality(getCompanyByUserId(u)) <= 1

\* C9: a create-project request inserts a Project row, in status pending,
\* only when the Company it loaded for the caller is approved; when that
\* Company is pending or rejected it is answered 403 and inserts nothing.
C9_ProjectOnlyByApprovedCompany ==
    /\ \A q \in Requests("PostCompanyProjects") :
          /\ (q.pc = "createProject" \/ "project" \in q.did) => q.seen = "approved"
          /\ q.seen \in {"pending", "rejected"} =>
                q.pc = "done" /\ q.resp = 403 /\ q.did = {}
    /\ \A p \in 1..Len(projects) : projects[p].status = "pending"

C9_Witness ==
    /\ \E q \in Finished("PostCompanyProjects") : q.seen = "rejected" /\ q.resp = 403
    /\ \E q \in Finished("PostCompanyProjects") : q.seen = "approved" /\ "project" \in q.did

\* C10: a create-submission request against a missing or non-active Project is
\* answered 400 and inserts nothing, and no Submission row is inserted at a
\* moment when its Project is not active.
C10_InsertOnlyWhileActive ==
    \A q \in Requests("PostSubmission") :
       /\ q.seen # "active" => q.pc = "done" /\ q.resp = 400 /\ q.did = {}
       /\ "submission" \in q.did => q.late = "active"

\* C11: a Project's status is one-shot: once it is active or cancelled, no
\* step of any request changes it again.
C11_ProjectStatusOneShot ==
    [][\A p \in 1..Len(projects) :
          projects[p].status \in {"active", "cancelled"} =>
             projects'[p].status = projects[p].status]_vars

\* C12: a Company's status is one-shot: once it is approved or rejected, no
\* step of any request changes it again.
C12_CompanyStatusOneShot ==
    [][\A c \in 1..Len(companies) :
          companies[c].status \in {"approved", "rejected"} =>
             companies'[c].status = companies[c].status]_vars

\* the requests that pass through requireRole(["admin"])
GatedRequests == Requests("AdminCompanyReview") \cup Requests("AdminProjectReview")

\* C13: the status of a Company or a Project changes only in a step of a
\* request whose role gate loaded the role admin; no request of a candidate-
\* or company-role caller changes a Company or Project status.
C13_StatusChanged ==
    \/ \E c \in 1..Len(companies) : companies'[c].status # companies[c].status
    \/ \E p \in 1..Len(projects) : projects'[p].status # projects[p].status

C13_StepOfAdminRequest ==
    \E q \in GatedRequests :
       /\ q.seen = "admin"
       /\ q.pc \in {"updateCompany", "updateProject"}
       /\ CopiesIn(q, reqs') < CopiesIn(q, reqs)

C13_StatusChangeOnlyByAdmin ==
    /\ [](\A q \in Inflight :
            q.did \cap {"companyStatus", "projectStatus"} # {} =>
               q \in GatedRequests /\ q.seen = "admin")
    /\ [][C13_StatusChanged => C13_StepOfAdminRequest]_vars

C13_Witness ==
    /\ \E q \in Finished("AdminProjectReview") :
          /\ q.seen = "admin" /\ q.resp = 200 /\ q.arg \in 1..Len(projects)
          /\ projects[q.arg].status = ProjectReviewStatus(q.approved)
    /\ \E q \in Finished("AdminCompanyReview") :
          q.seen \in {"candidate", "company"} /\ q.resp = 403 /\ q.did = {}

\* C14: the role gate answers 401 Unauthorized to a request without identity,
\* 401 User not found to an identity that resolves to no User row (unless the
\* lookup itself failed: 500), 403 to a persisted role outside the allowed
\* set, in that order; the handler behind the gate runs only for a request
\* whose loaded User has the role admin.
C14_RoleGateOrder ==
    \A q \in GatedRequests :
       /\ q.user = "none" =>
             q.pc = "done" /\ q.resp = 401 /\ q.message = "Unauthorized" /\ q.did = {}
       /\ (q.user # "none" /\ getUser(q.user) = {}) =>
             /\ q.pc = "done" /\ q.did = {}
             /\ q.resp = 500 \/ (q.resp = 401 /\ q.message = "User not found")
       /\ q.seen \in userRoleEnum \ {"admin"} =>
             /\ q.pc = "done" /\ q.resp = 403 /\ q.did = {}
             /\ q.message = "Insufficient permissions"
       /\ (q.pc # "done" \/ q.did # {} \/ q.resp = 200) =>
             q.user \in DOMAIN users /\ q.seen = "admin" /\ q.message = "none"

C14_Witness ==
    /\ \E q \in GatedRequests :
          q.user = "ghost" /\ q.resp = 401 /\ q.message = "User not found"
    /\ \E q \in GatedRequests : q.seen = "admin" /\ q.did # {} /\ q.resp = 200

\* C15: a review request updates the Submission, or inserts a Rating or a
\* Payment, only if the caller owns a Company whose id is the companyId of the
\* Submission's Project; a caller without Company, an unknown submission id
\* and a Company that does not own the Project end in an error (404, 403, or
\* 500 when a lookup failed) with nothing written.
C15_OwnerCompanies(q) ==
    {c \in getCompanyByUserId(q.user) :
        /\ q.arg \in 1..Len(submissions)
        /\ projects[submissions[q.arg].projectId].companyId = c}

C15_OwnershipGate ==
    \A q \in Requests("PostReview") :
       /\ (q.did # {} \/ q.pc \in {"updateSubmission", "createRating", "createPayment"}) =>
             C15_OwnerCompanies(q) # {}
       /\ getCompanyByUserId(q.user) = {} =>
             q.pc = "done" /\ q.resp \in {404, 500} /\ q.did = {}
       /\ (q.arg # 0 /\ getSubmission(q.arg) = {}) =>
             q.pc = "done" /\ q.resp = 404 /\ q.did = {}
       /\ (getSubmission(q.arg) # {} /\ C15_OwnerCompanies(q) = {}) =>
             /\ q.did = {}
             /\ q.pc = "getProject" \/ (q.pc = "done" /\ q.resp \in {403, 500})

C15_Witness ==
    /\ \E q \in Finished("PostReview") :
          q.user = "u2" /\ getSubmission(q.arg) # {} /\ q.resp = 403
    /\ \E q \in Finished("PostReview") :
          q.user = "u1" /\ q.resp = 200 /\ "status" \in q.did

\* C16: a review request inserts a Rating row exactly when approved is true
\* and a rating score is given (a truthy value): the row carries that score,
\* the feedback as review and the Submission's candidateId; a rejecting
\* review and an approving review without score insert no Rating row.
C16_RatingInserted(q) ==
    /\ q.pc = "createRating" /\ q.approved /\ q.rating # 0
    /\ CopiesIn(q, reqs') < CopiesIn(q, reqs)
    /\ ratings' = Append(ratings,
                         [submissionId |-> q.arg,
                          candidateId |-> submissions[q.arg].candidateId,
                          companyId |-> q.company, score |-> q.rating,
                          review |-> q.feedback])

C16_RatingExactlyWhenApprovedWithScore ==
    /\ [](\A q \in Requests("PostReview") :
            /\ "rating" \in q.did => q.approved
            /\ q.pc = "createRating" => q.approved /\ q.rating # 0
            /\ q.pc = "createPayment" => (("rating" \in q.did) <=> q.rating # 0)
            /\ (q.pc = "done" /\ q.resp = 200 /\ ~q.approved) => q.did = {"status"})
    /\ [][ratings' # ratings => \E q \in Requests("PostReview") : C16_RatingInserted(q)]_vars

C16_Witness ==
    /\ \E q \in Finished("PostReview") :
          q.resp = 200 /\ q.approved /\ q.did = {"status", "rating", "payment"}
    /\ \E q \in Finished("PostReview") :
          q.resp = 200 /\ q.approved /\ q.did = {"status", "payment"}
    /\ \E r \in 1..Len(ratings) :
          ratings[r].score = 5 /\ ratings[r].review = "great" /\ ratings[r].candidateId = "u2"

\* C17: Rating and Payment rows are append-only: no step of any request
\* modifies a field of an existing Rating or Payment row or removes the row.
C17_RatingsPaymentsAppendOnly ==
    [][/\ Len(ratings') >= Len(ratings)
       /\ \A i \in 1..Len(ratings) : ratings'[i] = ratings[i]
       /\ Len(payments') >= Len(payments)
       /\ \A i \in 1..Len(payments) : payments'[i] = payments[i]]_vars

C17_Witness ==
    /\ ratings # <<>>
    /\ payments # <<>>
    /\ \E q \in Finished("PostReview") :
          /\ q.seen = "approved" /\ q.resp = 200
          /\ RatingsOf(q.arg) # {} /\ PaymentsOf(q.arg) # {}
          /\ "rating" \in q.did

\* C18: every persisted Rating row has an integer score between 1 and 5,
\* whatever rating value the review request body carries.
C18_ScoreBetween1And5 ==
    \A r \in 1..Len(ratings) : ratings[r].score \in 1..5

\* C19: in every reachable state each Submission has at most one Rating row
\* and at most one Payment row.
C19_AtMostOneRatingAndPayment ==
    \A s \in 1..Len(submissions) :
       Cardinality(RatingsOf(s)) <= 1 /\ Cardinality(PaymentsOf(s)) <= 1

\* C20: a create-submission request whose duplicate lookup runs when the
\* candidate already has a Submission for the project (so every request
\* issued after the first one completed) is answered 400, inserts no
\* Submission row and changes no existing row.
C20_HasSubmitted(q) ==
    \E i \in 1..Len(submissions) :
       submissions[i].projectId = q.arg /\ submissions[i].candidateId = q.user

C20_Answered(q, codes) ==
    \E q2 \in BagToSet(reqs') :
       /\ q2.kind = q.kind /\ q2.user = q.user /\ q2.arg = q.arg
       /\ q2.pc = "done" /\ q2.resp \in codes /\ q2.did = {}
       /\ CopiesIn(q2, reqs') > CopiesIn(q2, reqs)

C20_SecondSubmissionRejected ==
    /\ [](\A q \in Requests("PostSubmission") :
            q.owned => q.pc = "done" /\ q.resp = 400 /\ q.did = {})
    /\ [][\A q \in Requests("PostSubmission") :
            (/\ q.pc = "getSubmissionByProjectAndCandidate"
             /\ C20_HasSubmitted(q)
             /\ CopiesIn(q, reqs') < CopiesIn(q, reqs)) =>
               /\ submissions' = submissions
               /\ C20_Answered(q, {400, 500})]_vars

C20_Witness ==
    \E q \in Finished("PostSubmission") :
       /\ q.owned /\ q.resp = 400 /\ q.did = {}
       /\ Cardinality(getSubmissionByProjectAndCandidate(q.arg, q.user)) = 1

\* the sum of a numeric column over the rows idxs of a table
RECURSIVE TotalOf(_, _, _)
TotalOf(table, column, idxs) ==
    IF idxs = {} THEN 0
    ELSE LET i == CHOOSE x \in idxs : TRUE
         IN  table[i][column] + TotalOf(table, column, idxs \ {i})

RatingsOfCandidate(c) == {i \in 1..Len(ratings) : ratings[i].candidateId = c}

PaidPaymentsOfCandidate(c) ==
    {i \in 1..Len(payments) : payments[i].candidateId = c /\ payments[i].status = "paid"}

\* C21: for a candidate without Rating rows getCandidateStats returns
\* averageRating 0, and for a candidate without paid Payment rows
\* totalEarnings "0".
C21_EmptyAggregatesDefined ==
    /\ \A c \in UserIds :
          /\ RatingsOfCandidate(c) = {} => getCandidateStats(c).averageRating = 0
          /\ PaidPaymentsOfCandidate(c) = {} =>
                getCandidateStats(c).totalEarnings = NumericText(0, 0)
    /\ \A q \in Finished("GetCandidateStats") :
          q.resp = 200 =>
             /\ RatingsOfCandidate(q.user) = {} => q.out.averageRating = 0
             /\ PaidPaymentsOfCandidate(q.user) = {} =>
                   q.out.totalEarnings = NumericText(0, 0)

C21_Witness ==
    /\ ratings # <<>> /\ payments # <<>>
    /\ \E q \in Finished("GetCandidateStats") :
          /\ q.resp = 200 /\ RatingsOfCandidate(q.user) = {}
          /\ q.out.averageRating = 0 /\ q.out.totalEarnings = NumericText(0, 0)

\* C22: getCandidateStats(c) returns the number of Submissions of c, the
\* number of those that are approved, the sum of the amounts of the paid
\* Payments of c and the mean score of the Ratings of c (to the precision of
\* the number returned); after one approval with rating 5 on the project
\* paying 250.00 the candidate's totalEarnings is "250.00" and averageRating 5.
C22_IsCandidateStats(c, stats) ==
    LET n == Cardinality(RatingsOfCandidate(c))
    IN  /\ stats.totalSubmissions =
              Cardinality({i \in 1..Len(submissions) : submissions[i].candidateId = c})
        /\ stats.completedProjects =
              Cardinality({i \in 1..Len(submissions) :
                             /\ submissions[i].candidateId = c
                             /\ submissions[i].status = "approved"})
        /\ stats.totalEarnings.cents = TotalOf(payments, "amount", PaidPaymentsOfCandidate(c))
        /\ IF n = 0 THEN stats.averageRating = 0
           ELSE LET diff == stats.averageRating * n
                              - 1000 * TotalOf(ratings, "score", RatingsOfCandidate(c))
                IN  2 * diff <= n /\ 2 * diff >= -n

C22_OneApprovalWithFive ==
    /\ Len(payments) = 1 /\ Len(ratings) = 1 /\ ratings[1].score = 5
    /\ submissions[1].status = "approved"

C22_CandidateStats ==
    /\ \A c \in UserIds : C22_IsCandidateStats(c, getCandidateStats(c))
    /\ \A q \in Finished("GetCandidateStats") :
          q.resp = 200 =>
             /\ C22_IsCandidateStats(q.user, q.out)
             /\ (C22_OneApprovalWithFive /\ q.user = "u2") =>
                   /\ q.out.totalEarnings = NumericText(25000, 2)
                   /\ q.out.averageRating = 5000

C22_Witness ==
    /\ C22_OneApprovalWithFive
    /\ \E q \in Finished("GetCandidateStats") :
          /\ q.user = "u2" /\ q.resp = 200
          /\ q.out.totalSubmissions = 1 /\ q.out.completedProjects = 1
          /\ q.out.totalEarnings = NumericText(25000, 2)
          /\ q.out.averageRating = 5000

\* C23: getCompanyStats(k) returns the number of Projects of company k, the
\* number of those that are active, the number of Submissions to Projects of
\* k and the sum of the amounts of the paid Payments with companyId k; the
\* branch for a company without projects (0 submissions, "0" spent) agrees
\* with these numbers.
C23_IsCompanyStats(k, stats) ==
    LET own == {p \in 1..Len(projects) : projects[p].companyId = k}
    IN  /\ stats.totalProjects = Cardinality(own)
        /\ stats.activeProjects = Cardinality({p \in own : projects[p].status = "active"})
        /\ stats.totalSubmissions =
              Cardinality({i \in 1..Len(submissions) : submissions[i].projectId \in own})
        /\ stats.totalSpent.cents =
              TotalOf(payments, "amount",
                      {i \in 1..Len(payments) :
                         payments[i].companyId = k /\ payments[i].status = "paid"})
        /\ own = {} => stats.totalSubmissions = 0 /\ stats.totalSpent = NumericText(0, 0)

C24_IsAdminStats(stats) ==
    /\ stats.totalUsers = Cardinality(DOMAIN users)
    /\ stats.totalCompanies = Len(companies)
    /\ stats.totalProjects = Len(projects)
    /\ stats.pendingCompanies =
          Cardinality({c \in 1..Len(companies) : companies[c].status = "pending"})
    /\ stats.pendingProjects =
          Cardinality({p \in 1..Len(projects) : projects[p].status = "pending"})
    /\ stats.totalPayouts.cents =
          TotalOf(payments, "amount",
                  {i \in 1..Len(payments) : payments[i].status = "paid"})

C24_AdminStatsReadOnly ==
    /\ [](/\ C24_IsAdminStats(getAdminStats)
          /\ \A q \in Finished("GetAdminStats") :
                q.resp = 200 => q.seen = "admin" /\ C24_IsAdminStats(q.out))
    /\ [][UNCHANGED <<users, companies, projects, submissions, ratings, payments>>]_vars

C24_Witness ==
    /\ \E q \in Finished("GetAdminStats") :
          /\ q.resp = 200
          /\ q.out.totalUsers = 3 /\ q.out.totalCompanies = 2
          /\ q.out.totalProjects = 2 /\ q.out.pendingProjects = 1
          /\ q.out.pendingCompanies = 1 /\ q.out.totalPayouts.cents = 50000
    /\ \E q \in Finished("GetCandidateStats") : q.resp = 200

\* the messages of the catch blocks
GenericMessages ==
    {"Authorization error", "Failed to create company", "Failed to review company",
     "Failed to create project", "Failed to review project",
     "Failed to create submission", "Failed to review submission",
     "Failed to update profile", "Failed to fetch stats"}

\* C25: a request one of whose data-access calls failed, in the handler or
\* in the role gate, is finished with a 500 response carrying the fixed
\* message of its catch block; no request reports success after a failed
\* call, and no other request is answered 500.
C25_FailureGives500 ==
    \A q \in Inflight :
       /\ q.threw =>
             /\ q.pc = "done" /\ q.resp = 500
             /\ q.message \in GenericMessages
             /\ q.out = <<>>
       /\ q.resp = 200 => ~q.threw
       /\ q.resp = 500 => q.threw

C25_Witness ==
    /\ \E q \in Finished("PostCompanyProfile") :
          q.threw /\ q.did = {"role"} /\ q.message = "Failed to create company"
    /\ \E q \in Finished("AdminCompanyReview") :
          q.threw /\ q.message = "Authorization error"

\* C26: in every reachable state every Payment row and every Rating row
\* references a Submission whose status is approved.
C26_SettledMeansApproved ==
    /\ \A p \in 1..Len(payments) : submissions[payments[p].submissionId].status = "approved"
    /\ \A r \in 1..Len(ratings) : submissions[ratings[r].submissionId].status = "approved"

\* C27: a user whose persisted role is admin keeps the role admin in every
\* step, and the company-profile request changes the caller's role only when
\* it was candidate.
C27_AdminKeepsRole ==
    [][\A u \in DOMAIN users :
          /\ users[u].role = "admin" => users'[u].role = "admin"
          /\ users'[u].role # users[u].role => users[u].role = "candidate"]_vars

\* C28: no step of any request sets a user's role to admin: a role changes
\* only to company, in the role write of company creation, and PATCH
\* /api/profile never writes the role, whatever the body carries.
C28_RoleWrite ==
    \E q \in Requests("PostCompanyProfile") :
       /\ q.pc = "updateUserProfile"
       /\ CopiesIn(q, reqs') < CopiesIn(q, reqs)
       /\ \A u \in DOMAIN users : users'[u].role # users[u].role => u = q.user

C28_NoRoleToAdmin ==
    /\ [](\A u \in DOMAIN users : users[u].role = "admin" => u = "adm")
    /\ [][(\E u \in DOMAIN users : users'[u].role # users[u].role) =>
             /\ \A u \in DOMAIN users :
                   users'[u].role # users[u].role => users'[u].role = "company"
             /\ C28_RoleWrite]_vars

C28_Witness ==
    /\ users["u1"].role = "company"
    /\ users["u1"].firstName = "Ann"
    /\ \E q \in Finished("PatchProfile") :
          q.user = "u1" /\ q.resp = 200 /\ "body.role" \in q.did

\* C29: a PATCH /api/profile request changes only the firstName, lastName,
\* bio, skills, experience, portfolioUrl and updatedAt columns of the
\* caller's own User row: the caller's email and role, every other User row
\* and every Company, Project, Submission, Rating and Payment row stay as
\* they are.
C29_Patched(u) ==
    \E q \in BagToSet(reqs') :
       /\ q.kind = "PatchProfile" /\ q.user = u /\ "profile" \in q.did
       /\ CopiesIn(q, reqs') > CopiesIn(q, reqs)

C29_PatchProfileFrame ==
    [][\A u \in UserIds \cup {"ghost"} :
          C29_Patched(u) =>
             /\ DOMAIN users' = DOMAIN users
             /\ \A v \in DOMAIN users :
                   IF v = u
                   THEN \A c \in DOMAIN users[v] :
                           users'[v][c] # users[v][c] => c \in ProfileColumns \cup {"updatedAt"}
                   ELSE users'[v] = users[v]
             /\ UNCHANGED <<companies, projects, submissions, ratings, payments>>]_vars

C29_Witness ==
    /\ users["u1"].bio = "hello" /\ users["u1"].updatedAt = "now"
    /\ users["u1"].email = "u1@example.org"
    /\ users["adm"].updatedAt = "created"
    /\ companies # <<>>
    /\ \E q \in Finished("PatchProfile") : q.user = "u1" /\ q.resp = 200

\* C30: in every reachable state every Payment row and every Rating row
\* carries the candidateId of the Submission it references and the companyId
\* of that Submission's Project, and every Submission row is inserted with
\* the id of the authenticated caller of the request that inserts it as its
\* candidateId.
C30_Consistent(row) ==
    /\ row.submissionId \in DOMAIN submissions
    /\ row.candidateId = submissions[row.submissionId].candidateId
    /\ submissions[row.submissionId].projectId \in DOMAIN projects
    /\ row.companyId = projects[submissions[row.submissionId].projectId].companyId

C30_InsertedByCaller ==
    \E q \in Requests("PostSubmission") :
       /\ q.pc = "createSubmission"
       /\ CopiesIn(q, reqs') < CopiesIn(q, reqs)
       /\ submissions' = Append(submissions,
                                [projectId |-> q.arg, candidateId |-> q.user,
                                 status |-> "pending", feedback |-> "null"])

C30_RowLineage ==
    /\ [](/\ \A p \in DOMAIN payments : C30_Consistent(payments[p])
          /\ \A r \in DOMAIN ratings : C30_Consistent(ratings[r]))
    /\ [][/\ Len(submissions') > Len(submissions) => C30_InsertedByCaller
          /\ \A i \in DOMAIN submissions :
                /\ submissions'[i].candidateId = submissions[i].candidateId
                /\ submissions'[i].projectId = submissions[i].projectId]_vars

C30_Witness ==
    /\ Len(submissions) = 2
    /\ submissions[1].candidateId # submissions[2].candidateId
    /\ \E p \in DOMAIN payments, r \in DOMAIN ratings :
          /\ payments[p].candidateId # companies[payments[p].companyId].userId
          /\ C30_Consistent(payments[p]) /\ C30_Consistent(ratings[r])

====
